---- MODULE Spec2Model ----
(***************************************************************************)
(* A model of jc::variant (variant_storage, variant_choice, variant and    *)
(* variant_visit_impl) and of the typelist operations it relies on.        *)
(*                                                                         *)
(* One variant<Types...> object is followed through its lifetime:          *)
(* construction, value assignment, assignment from another variant,        *)
(* destroy(), get<T>(), visit() and the destructor.  The steps inside       *)
(* operator= and destroy() are separate transitions, so the order of the   *)
(* destructor call, the placement new and the two discriminator writes is  *)
(* visible in the reachable states.                                        *)
(***************************************************************************)
EXTENDS Integers, Sequences, FiniteSets, TLC

\* ------------------------------------------------------------------ bounds
NumTypes == 3      \* number of alternatives of the variant under study
MaxVal == 1        \* alternative values range over 0..MaxVal
MaxOps == 3        \* public operations followed per variant lifetime
NumElems == 3      \* element types the typelists are built from
MaxLen == 3        \* longest typelist, index list and tuple
MaxIdx == 2        \* longest index list handed to select_tuple
MaxNodes == 3      \* keys a DAGGraph is given

\* --------------------------------------------------------------- constants
DiscriminatorWidth == 256   \* unsigned char discriminator_

TypeUniverse == <<"int", "double", "string", "noncopyable", "char">>

\* variant<Types...>: the alternative list of the variant under study
Types == SubSeq(TypeUniverse, 1, NumTypes)

\* variant<SourceTypes...>: another alternative list with the same types in
\* the opposite order, the source of the converting constructor/assignment
SourceTypes == [i \in 1..NumTypes |-> Types[NumTypes + 1 - i]]

Values == 0..MaxVal
DefaultValue == 0          \* T(): value-initialised alternative
NoType == "-"
NoIndex == -1              \* find_index_of has no member `type`
NoValue == -1              \* no value returned

\* ---------------------------------------------------------------- typelist
is_empty(List) == Len(List) = 0

front(List) == List[1]

pop_front(List) == SubSeq(List, 2, Len(List))

\* mutant: the position is not counted up, the result is always N
RECURSIVE find_index_of_NoIncrement(_, _, _)
find_index_of_NoIncrement(List, T, N) ==
  IF is_empty(List) THEN NoIndex
  ELSE IF front(List) = T THEN N
  ELSE find_index_of_NoIncrement(pop_front(List), T, N)

\* find_index_of<List, T, N>
RECURSIVE find_index_of(_, _, _)
find_index_of(List, T, N) ==
  IF is_empty(List) THEN NoIndex
  ELSE IF front(List) = T THEN N
  ELSE find_index_of(pop_front(List), T, N + 1)

\* the element types of the typelists, with their sizeof (LP64)
ElemUniverse == <<"bool", "double", "int*", "char", "int", "short">>

SizeOf ==
  [t \in {"bool", "char"} |-> 1] @@ [t \in {"short"} |-> 2] @@
  [t \in {"int"} |-> 4] @@ [t \in {"double", "int*"} |-> 8]

ElemSet == {ElemUniverse[i] : i \in 1..NumElems}

\* all sequences over S of length at most n
SeqsUpTo(S, n) == UNION {[1..k -> S] : k \in 0..n}

\* mutant: the new element is put at the back
push_front_AtBack(List, NewElement) == List \o <<NewElement>>

\* push_front<typelist<Elements...>, NewElement>
push_front(List, NewElement) == <<NewElement>> \o List

\* mutant: the recursion forgets to pop the front
RECURSIVE nth_element_NoPop(_, _)
nth_element_NoPop(List, N) ==
  IF N = 0 THEN front(List) ELSE nth_element_NoPop(List, N - 1)

\* nth_element<List, N>
RECURSIVE nth_element(_, _)
nth_element(List, N) ==
  IF N = 0 THEN front(List) ELSE nth_element(pop_front(List), N - 1)

\* mutant: on the empty list the new element is dropped
RECURSIVE push_back_impl_DropsElement(_, _)
push_back_impl_DropsElement(List, NewElement) ==
  IF is_empty(List) THEN List
  ELSE push_front(push_back_impl_DropsElement(pop_front(List), NewElement),
                  front(List))

\* push_back_impl<List, NewElement>: the generic push_back, built from
\* front, pop_front, push_front and is_empty
RECURSIVE push_back_impl(_, _)
push_back_impl(List, NewElement) ==
  IF is_empty(List) THEN push_front(List, NewElement)
  ELSE push_front(push_back_impl(pop_front(List), NewElement), front(List))

\* push_back<List, NewElement> of a typelist
push_back(List, NewElement) == push_back_impl(List, NewElement)

\* push_back<std::index_sequence<Values...>, integral_constant<New>> and
\* push_back<tuple<Types...>, Element>: the pack expansion
push_back_pack(List, NewElement) == Append(List, NewElement)

\* mutant: reverse puts the front element back at the front
RECURSIVE reverse_KeepsOrder(_)
reverse_KeepsOrder(List) ==
  IF is_empty(List) THEN List
  ELSE push_front(reverse_KeepsOrder(pop_front(List)), front(List))

\* reverse<List>
RECURSIVE reverse(_)
reverse(List) ==
  IF is_empty(List) THEN List
  ELSE push_back(reverse(pop_front(List)), front(List))

\* mutant: the result is not reversed back
pop_back_NoOuterReverse(List) == pop_front(reverse(List))

\* pop_back<List>
pop_back(List) == reverse(pop_front(reverse(List)))

\* mutant: the contender must be strictly larger than the best of the tail
RECURSIVE largest_type_Strict(_)
largest_type_Strict(List) ==
  IF is_empty(List) THEN "char"
  ELSE LET contender == front(List)
           best == largest_type_Strict(pop_front(List))
       IN IF SizeOf[contender] > SizeOf[best] THEN contender ELSE best

\* largest_type<List>
RECURSIVE largest_type(_)
largest_type(List) ==
  IF is_empty(List) THEN "char"
  ELSE LET contender == front(List)
           best == largest_type(pop_front(List))
       IN IF SizeOf[contender] >= SizeOf[best] THEN contender ELSE best

\* the compile-time predicates handed to insertion_sort: test::smaller,
\* test::less (on the position in ElemUniverse) and its reflexive variant
Comparators == {"smaller", "less", "less_equal"}

Rank(t) == find_index_of(ElemUniverse, t, 0)

\* Compare<T, U>::value
Compare(c, T, U) ==
  CASE c = "smaller" -> SizeOf[T] < SizeOf[U]
    [] c = "less" -> Rank(T) < Rank(U)
    [] c = "less_equal" -> Rank(T) <= Rank(U)

\* mutant: the arguments of Compare are swapped
RECURSIVE insert_sorted_Swapped(_, _, _)
insert_sorted_Swapped(List, Element, c) ==
  IF is_empty(List) THEN push_front(List, Element)
  ELSE LET new_tail == IF Compare(c, front(List), Element) THEN List
                       ELSE insert_sorted_Swapped(pop_front(List), Element, c)
           new_head == IF Compare(c, front(List), Element) THEN Element
                       ELSE front(List)
       IN push_front(new_tail, new_head)

\* mutant: Element is placed before the first element that does not precede
\* it, so elements the comparator cannot tell apart keep their input order
RECURSIVE insert_sorted_Stable(_, _, _)
insert_sorted_Stable(List, Element, c) ==
  IF is_empty(List) THEN push_front(List, Element)
  ELSE LET new_tail == IF ~Compare(c, front(List), Element) THEN List
                       ELSE insert_sorted_Stable(pop_front(List), Element, c)
           new_head == IF ~Compare(c, front(List), Element) THEN Element
                       ELSE front(List)
       IN push_front(new_tail, new_head)

\* insert_sorted<List, Element, Compare>
RECURSIVE insert_sorted(_, _, _)
insert_sorted(List, Element, c) ==
  IF is_empty(List) THEN push_front(List, Element)
  ELSE LET new_tail == IF Compare(c, Element, front(List)) THEN List
                       ELSE insert_sorted(pop_front(List), Element, c)
           new_head == IF Compare(c, Element, front(List)) THEN Element
                       ELSE front(List)
       IN push_front(new_tail, new_head)

\* insertion_sort<List, Compare>
RECURSIVE insertion_sort(_, _)
insertion_sort(List, c) ==
  IF is_empty(List) THEN List
  ELSE insert_sorted(insertion_sort(pop_front(List), c), front(List), c)

\* select<Types, std::index_sequence<Indices...>>
select(List, Indices) ==
  [i \in 1..Len(Indices) |-> nth_element(List, Indices[i])]

\* ---------------------------------------------------------- variant_choice
\* mutant: the discriminator is the 0-based index (the + 1 is forgotten)
Discriminator_ZeroBased(T, List) == find_index_of(List, T, 0)

\* variant_choice<T, Types...>::Discriminator
Discriminator(T, List) == find_index_of(List, T, 0) + 1

\* variant_storage::set_discriminator(unsigned char d)
StoredDiscriminator(d) == d % DiscriminatorWidth

\* variant::is<T>() for a variant over List whose discriminator is d
is(d, T, List) == d = Discriminator(T, List)

\* variant::empty()
empty(d) == d = 0

VARIABLES
  life,     \* "unborn" | "alive" | "dead": the variant object's lifetime
  disc,     \* variant_storage::discriminator_
  live,     \* objects alive in variant_storage::buffer_: set of [t, x]
  pc,       \* position inside the running operation, "idle" between calls
  ret,      \* where variant::destroy() returns to: "construct" | "return"
  idx,      \* position of the fold over variant_choice<Types>::destroy()
  op,       \* the running (or last finished) public operation
  src,      \* the other variant taking part in a copy/move: [types, d, x]
  result,   \* outcome of the last finished operation
  events,   \* what the running (or last finished) operation did, in order
  ctors,    \* alternative constructors completed during this lifetime
  dtors,    \* alternative destructors run during this lifetime
  nops,     \* public operations started during this lifetime
  retval,   \* value returned by the last get<T>() or visit(), else NoValue
  before    \* the variant when the operation started, and what preceded it:
            \* [d, objs, kind, res]

vars == <<life, disc, live, pc, ret, idx, op, src, result, events,
          ctors, dtors, nops, retval, before>>

\* the typelist algorithms and the tuple algorithms are pure functions; each
\* is followed from its arguments to its result in a variable of its own
VARIABLES
  tl,       \* typelist algorithms: [op, L, E, I, cmp, list, list2, elem, idx]
  tup,      \* tuple algorithms: [op, t, I, cmp, out, out2, eq, log, selects,
            \* made, os]
  fn,       \* two jc::function objects f and g and the last operation on
            \* them: [f, g, op, args, ret, equals, null]
  dag       \* a DAGGraph and the last call on it

\* the variables outside the variant, the typelist and the tuple model
NotVariant == <<tl, tup, fn, dag>>
NotTypelist == <<vars, tup, fn, dag>>
NotTuple == <<vars, tl, fn, dag>>
NotFunction == <<vars, tl, tup, dag>>
NotDag == <<vars, tl, tup, fn>>

Obj(t, x) == [t |-> t, x |-> x]

Ev(e, t, x) == [e |-> e, t |-> t, x |-> x]

Op(kind, t, x, thr, mv) ==
  [kind |-> kind, t |-> t, x |-> x, thr |-> thr, mv |-> mv]

Snapshot(d, objs, kind, res) ==
  [d |-> d, objs |-> objs, kind |-> kind, res |-> res]

NoOp == Op("none", NoType, 0, FALSE, FALSE)

NoSrc == [types |-> <<>>, d |-> 0, x |-> 0]

TypeSet == {Types[i] : i \in 1..NumTypes}

\* the states another variant over List can be in
SrcStates(List) ==
  {[types |-> List, d |-> 0, x |-> 0]} \cup
  {[types |-> List, d |-> d, x |-> x] : d \in 1..Len(List), x \in Values}

CtorKinds == {"ctor_default", "ctor_value", "ctor_copy"}

\* the value a moved-from alternative is left with
MovedFrom(x) == DefaultValue

\* the variant before any constructor has run
VariantInit ==
  /\ life = "unborn"
  /\ disc = 0
  /\ live = {}
  /\ pc = "idle"
  /\ ret = "return"
  /\ idx = 1
  /\ op = NoOp
  /\ src = NoSrc
  /\ result = "none"
  /\ events = <<>>
  /\ ctors = 0
  /\ dtors = 0
  /\ nops = 0
  /\ retval = NoValue
  /\ before = Snapshot(0, {}, "none", "none")

\* no typelist algorithm and no tuple algorithm is being followed
NoTypelist ==
  [op |-> "idle", L |-> <<>>, E |-> NoType, I |-> <<>>, cmp |-> NoType,
   list |-> <<>>, list2 |-> <<>>, elem |-> NoType, idx |-> NoIndex]

NoTuple ==
  [op |-> "idle", t |-> <<>>, I |-> <<>>, cmp |-> NoType, out |-> <<>>,
   out2 |-> <<>>, eq |-> FALSE, log |-> <<>>, selects |-> 0, made |-> 0,
   os |-> <<>>]

\* a null functor_bridge pointer
nullptr == [F |-> NoType, v |-> NoValue]

\* two default-constructed functions: functor_bridge* bridge_ = nullptr;
NoFunction ==
  [f |-> nullptr, g |-> nullptr, op |-> "none", args |-> <<>>,
   ret |-> "none", equals |-> FALSE, null |-> FALSE]

\* the keys a DAGGraph is given
Keys == 0..(MaxNodes - 1)

\* a DAGNode without edges
NoEdges == [in |-> {}, out |-> {}]

\* a default-constructed DAGGraph: no node, bool allow_modify_ = true
NoDag ==
  [keys |-> {}, bucket |-> [k \in Keys |-> NoEdges], heads |-> {},
   tails |-> {}, seq_head |-> <<>>, seq_tail |-> <<>>, allow |-> TRUE,
   seq_next |-> <<>>, cur |-> {}, op |-> "none", args |-> <<>>, ok |-> FALSE,
   res |-> {}, visited |-> <<>>, aborted |-> FALSE, calls |-> <<>>]

\* nothing but the component under study is in use
OthersIdle(component) ==
  /\ component = "variant" \/ VariantInit
  /\ component = "typelist" \/ tl = NoTypelist
  /\ component = "tuple" \/ tup = NoTuple
  /\ component = "function" \/ fn = NoFunction
  /\ component = "dag" \/ dag = NoDag

Init ==
  /\ VariantInit
  /\ OthersIdle("variant")

\* ------------------------------------------------------- queries on a variant
\* *get_buffer_as<T>(): the object of type T in the buffer
BufferAs(objs, T) ==
  IF \E o \in objs : o.t = T
  THEN (CHOOSE o \in objs : o.t = T).x
  ELSE NoValue

\* mutant: get<T>() asserts is<T>() without testing empty() first
get_NoEmptyCheck(d, objs, T, List) ==
  IF ~is(d, T, List) THEN [res |-> "assert", x |-> NoValue]
  ELSE [res |-> "value", x |-> BufferAs(objs, T)]

\* variant::get<T>()
get(d, objs, T, List) ==
  IF empty(d) THEN [res |-> "empty_variant", x |-> NoValue]
  ELSE IF ~is(d, T, List) THEN [res |-> "assert", x |-> NoValue]
  ELSE [res |-> "value", x |-> BufferAs(objs, T)]

\* mutant: the scan gives up after the first alternative of the list
variant_visit_impl_NoRecurse(d, objs, List, Rest) ==
  IF is(d, front(Rest), List)
  THEN [calls |-> <<Obj(front(Rest), get(d, objs, front(Rest), List).x)>>,
        res |-> "returned"]
  ELSE [calls |-> <<>>, res |-> "empty_variant"]

\* variant_visit_impl(variant, vis, typelist<Head, Tail...>): the calls made
\* to the visitor and how the scan ended
RECURSIVE variant_visit_impl(_, _, _, _)
variant_visit_impl(d, objs, List, Rest) ==
  IF is(d, front(Rest), List)
  THEN [calls |-> <<Obj(front(Rest), get(d, objs, front(Rest), List).x)>>,
        res |-> "returned"]
  ELSE IF Len(pop_front(Rest)) > 0
  THEN variant_visit_impl(d, objs, List, pop_front(Rest))
  ELSE [calls |-> <<>>, res |-> "empty_variant"]

\* variant::visit(vis)
visit(d, objs, List) == variant_visit_impl(d, objs, List, List)

\* the visitor used by Visit: a function of the alternative and its value
Visitor(t, x) == 10 * (find_index_of(TypeUniverse, t, 0) + 1) + x

\* the object a variant in state s holds
SrcLive(s) == IF s.d = 0 THEN {} ELSE {Obj(s.types[s.d], s.x)}

\* ------------------------------------------------------------ bookkeeping
\* a public operation starts running
StartOp(o) ==
  /\ op' = o
  /\ events' = <<>>
  /\ result' = "running"
  /\ retval' = NoValue
  /\ before' = Snapshot(IF o.kind \in CtorKinds THEN 0 ELSE disc,
                        IF o.kind \in CtorKinds THEN {} ELSE live,
                        op.kind, result)

Idle == pc = "idle" /\ life = "alive" /\ nops < MaxOps

\* storage of a new variant object: unsigned char discriminator_ = 0;
NewLifetime ==
  /\ pc = "idle"
  /\ life \in {"unborn", "dead"}
  /\ disc' = 0
  /\ live' = {}
  /\ ctors' = 0
  /\ dtors' = 0
  /\ nops' = 0

\* the operation of the given kind returns normally
Return(kind) ==
  /\ pc' = "idle"
  /\ result' = "ok"
  /\ life' = IF kind = "dtor" THEN "dead" ELSE "alive"

\* an exception leaves the operation of the given kind; a constructor that
\* throws leaves no variant object behind
Throw(kind, what) ==
  /\ pc' = "idle"
  /\ result' = what
  /\ life' = IF kind \in CtorKinds THEN "unborn" ELSE life

\* --------------------------------------------------- steps of variant_choice
\* mutant: operator= constructs the new value without destroying the old
ChoiceAssign_NoDestroy ==
  /\ pc = "assign"
  /\ IF disc = Discriminator(op.t, Types)
     THEN IF op.thr
          THEN /\ Throw(op.kind, "throw")
               /\ UNCHANGED <<live, events, src, ret, idx>>
          ELSE /\ live' = {IF o.t = op.t THEN Obj(o.t, op.x) ELSE o : o \in live}
               /\ events' = Append(events, Ev("assign", op.t, op.x))
               /\ src' = IF op.mv /\ src # NoSrc
                         THEN [src EXCEPT !.x = MovedFrom(src.x)] ELSE src
               /\ Return(op.kind)
               /\ UNCHANGED <<ret, idx>>
     ELSE /\ pc' = "construct"
          /\ UNCHANGED <<life, live, events, src, result, ret, idx>>
  /\ UNCHANGED <<disc, op, ctors, dtors, nops, retval, before>>
  /\ UNCHANGED NotVariant

\* mutant: operator= always destroys and constructs anew, also when the
\* variant already holds the alternative
ChoiceAssign_AlwaysReconstruct ==
  /\ pc = "assign"
  /\ pc' = "choice_destroy"
  /\ idx' = 1
  /\ ret' = "construct"
  /\ UNCHANGED <<life, live, events, src, result>>
  /\ UNCHANGED <<disc, op, ctors, dtors, nops, retval, before>>
  /\ UNCHANGED NotVariant

\* mutant: when the assignment in place throws, the held object is gone
\* although the discriminator still names it
ChoiceAssign_ThrowLosesObject ==
  /\ pc = "assign"
  /\ IF disc = Discriminator(op.t, Types)
     THEN IF op.thr
          THEN /\ Throw(op.kind, "throw")
               /\ live' = {}
               /\ UNCHANGED <<events, src, ret, idx>>
          ELSE /\ live' = {IF o.t = op.t THEN Obj(o.t, op.x) ELSE o : o \in live}
               /\ events' = Append(events, Ev("assign", op.t, op.x))
               /\ src' = IF op.mv /\ src # NoSrc
                         THEN [src EXCEPT !.x = MovedFrom(src.x)] ELSE src
               /\ Return(op.kind)
               /\ UNCHANGED <<ret, idx>>
     ELSE /\ pc' = "choice_destroy"
          /\ idx' = 1
          /\ ret' = "construct"
          /\ UNCHANGED <<life, live, events, src, result>>
  /\ UNCHANGED <<disc, op, ctors, dtors, nops, retval, before>>
  /\ UNCHANGED NotVariant

\* variant_choice<T>::operator=(const T&) / operator=(T&&): the test of the
\* discriminator and, when it matches, the assignment in place
ChoiceAssign ==
  /\ pc = "assign"
  /\ IF disc = Discriminator(op.t, Types)
     THEN IF op.thr
          THEN /\ Throw(op.kind, "throw")
               /\ UNCHANGED <<live, events, src, ret, idx>>
          ELSE /\ live' = {IF o.t = op.t THEN Obj(o.t, op.x) ELSE o : o \in live}
               /\ events' = Append(events, Ev("assign", op.t, op.x))
               /\ src' = IF op.mv /\ src # NoSrc
                         THEN [src EXCEPT !.x = MovedFrom(src.x)] ELSE src
               /\ Return(op.kind)
               /\ UNCHANGED <<ret, idx>>
     ELSE /\ pc' = "choice_destroy"
          /\ idx' = 1
          /\ ret' = "construct"
          /\ UNCHANGED <<life, live, events, src, result>>
  /\ UNCHANGED <<disc, op, ctors, dtors, nops, retval, before>>
  /\ UNCHANGED NotVariant

\* mutant: variant_choice::destroy() compares the discriminator with the
\* 0-based index, so it runs the destructor of the wrong alternative
ChoiceDestroy_Leak ==
  /\ pc = "choice_destroy"
  /\ idx <= NumTypes
  /\ IF disc = Discriminator(Types[idx], Types) - 1
     THEN /\ live' = {o \in live : o.t # Types[idx]}
          /\ dtors' = dtors + 1
          /\ events' = Append(events, Ev("dtor", Types[idx], 0))
     ELSE UNCHANGED <<live, dtors, events>>
  /\ idx' = idx + 1
  /\ pc' = IF idx = NumTypes THEN "reset_disc" ELSE "choice_destroy"
  /\ UNCHANGED <<life, disc, ret, op, src, result, ctors, nops, retval, before>>
  /\ UNCHANGED NotVariant

\* variant_choice<Types[idx]>::destroy(), one operand of the fold expression
\* in variant::destroy()
ChoiceDestroy ==
  /\ pc = "choice_destroy"
  /\ idx <= NumTypes
  /\ IF disc = Discriminator(Types[idx], Types)
     THEN /\ live' = {o \in live : o.t # Types[idx]}
          /\ dtors' = dtors + 1
          /\ events' = Append(events, Ev("dtor", Types[idx], 0))
     ELSE UNCHANGED <<live, dtors, events>>
  /\ idx' = idx + 1
  /\ pc' = IF idx = NumTypes THEN "reset_disc" ELSE "choice_destroy"
  /\ UNCHANGED <<life, disc, ret, op, src, result, ctors, nops, retval, before>>
  /\ UNCHANGED NotVariant

\* mutant: destroy() leaves the discriminator as it is
ResetDiscriminator_NoReset ==
  /\ pc = "reset_disc"
  /\ disc' = disc
  /\ events' = Append(events, Ev("disc", NoType, 0))
  /\ IF ret = "construct"
     THEN pc' = "construct" /\ UNCHANGED <<life, result>>
     ELSE Return(op.kind)
  /\ UNCHANGED <<live, ret, idx, op, src, ctors, dtors, nops, retval, before>>
  /\ UNCHANGED NotVariant

\* mutant: inside operator= the discriminator is set to the new index
\* before the new value is constructed
ResetDiscriminator_Early ==
  /\ pc = "reset_disc"
  /\ disc' = IF ret = "construct"
             THEN StoredDiscriminator(Discriminator(op.t, Types))
             ELSE StoredDiscriminator(0)
  /\ events' = Append(events, Ev("disc", NoType, 0))
  /\ IF ret = "construct"
     THEN pc' = "construct" /\ UNCHANGED <<life, result>>
     ELSE Return(op.kind)
  /\ UNCHANGED <<live, ret, idx, op, src, ctors, dtors, nops, retval, before>>
  /\ UNCHANGED NotVariant

\* variant::destroy(): this->set_discriminator(0) after the fold
ResetDiscriminator ==
  /\ pc = "reset_disc"
  /\ disc' = StoredDiscriminator(0)
  /\ events' = Append(events, Ev("disc", NoType, 0))
  /\ IF ret = "construct"
     THEN pc' = "construct" /\ UNCHANGED <<life, result>>
     ELSE Return(op.kind)
  /\ UNCHANGED <<live, ret, idx, op, src, ctors, dtors, nops, retval, before>>
  /\ UNCHANGED NotVariant

\* new (get_raw_buffer()) T(value)
PlacementNew ==
  /\ pc = "construct"
  /\ IF op.thr
     THEN /\ Throw(op.kind, "throw")
          /\ UNCHANGED <<live, ctors, events, src>>
     ELSE /\ live' = live \cup {Obj(op.t, op.x)}
          /\ ctors' = ctors + 1
          /\ events' = Append(events, Ev("ctor", op.t, op.x))
          /\ src' = IF op.mv /\ src # NoSrc
                    THEN [src EXCEPT !.x = MovedFrom(src.x)] ELSE src
          /\ pc' = "set_disc"
          /\ UNCHANGED <<life, result>>
  /\ UNCHANGED <<disc, ret, idx, op, dtors, nops, retval, before>>
  /\ UNCHANGED NotVariant

\* get_derived().set_discriminator(Discriminator)
SetDiscriminator ==
  /\ pc = "set_disc"
  /\ disc' = StoredDiscriminator(Discriminator(op.t, Types))
  /\ events' = Append(events, Ev("disc", NoType, disc'))
  /\ Return(op.kind)
  /\ UNCHANGED <<live, ret, idx, op, src, ctors, dtors, nops, retval, before>>
  /\ UNCHANGED NotVariant

\* ------------------------------------------------------ public operations
\* mutant: the default constructor constructs no alternative
VariantDefault_Empty ==
  /\ NewLifetime
  /\ op' = Op("ctor_default", front(Types), DefaultValue, FALSE, TRUE)
  /\ events' = <<>>
  /\ retval' = NoValue
  /\ before' = Snapshot(0, {}, op.kind, result)
  /\ src' = NoSrc
  /\ Return("ctor_default")
  /\ UNCHANGED <<ret, idx>>
  /\ UNCHANGED NotVariant

\* variant() { *this = front_t<typelist<Types...>>(); }
VariantDefault ==
  \E thr \in BOOLEAN :
    /\ NewLifetime
    /\ StartOp(Op("ctor_default", front(Types), DefaultValue, thr, TRUE))
    /\ src' = NoSrc
    /\ pc' = "assign"
    /\ UNCHANGED <<life, ret, idx>>
    /\ UNCHANGED NotVariant

\* variant_choice(const T&) / variant_choice(T&&), inherited by variant
VariantFromValue ==
  \E t \in TypeSet, x \in Values, thr \in BOOLEAN :
    /\ NewLifetime
    /\ StartOp(Op("ctor_value", t, x, thr, FALSE))
    /\ src' = NoSrc
    /\ pc' = "construct"
    /\ UNCHANGED <<life, ret, idx>>
    /\ UNCHANGED NotVariant

\* mutant: the alternative is taken over by its position in the source's
\* list instead of by its type
VariantCopy_ByIndex ==
  \E s \in SrcStates(Types) \cup SrcStates(SourceTypes),
     mv \in BOOLEAN, thr \in BOOLEAN :
    /\ NewLifetime
    /\ src' = s
    /\ IF ~empty(s.d)
       THEN /\ StartOp(Op("ctor_copy", Types[s.d], s.x, thr, mv))
            /\ pc' = "assign"
            /\ UNCHANGED life
       ELSE /\ op' = Op("ctor_copy", NoType, 0, FALSE, mv)
            /\ events' = <<>>
            /\ retval' = NoValue
            /\ before' = Snapshot(0, {}, op.kind, result)
            /\ Return("ctor_copy")
    /\ UNCHANGED <<ret, idx>>
    /\ UNCHANGED NotVariant

\* variant(const variant&), variant(variant&&) and the converting
\* variant(const variant<SourceTypes...>&), variant(variant<SourceTypes...>&&)
VariantCopy ==
  \E s \in SrcStates(Types) \cup SrcStates(SourceTypes),
     mv \in BOOLEAN, thr \in BOOLEAN :
    /\ NewLifetime
    /\ src' = s
    /\ IF ~empty(s.d)
       THEN LET r == visit(s.d, SrcLive(s), s.types) IN
            IF r.res = "returned"
            THEN /\ StartOp(Op("ctor_copy", r.calls[1].t, r.calls[1].x,
                               thr, mv))
                 /\ pc' = "assign"
                 /\ UNCHANGED life
            ELSE /\ op' = Op("ctor_copy", NoType, 0, FALSE, mv)
                 /\ events' = <<>>
                 /\ retval' = NoValue
                 /\ before' = Snapshot(0, {}, op.kind, result)
                 /\ Throw("ctor_copy", r.res)
       ELSE /\ op' = Op("ctor_copy", NoType, 0, FALSE, mv)
            /\ events' = <<>>
            /\ retval' = NoValue
            /\ before' = Snapshot(0, {}, op.kind, result)
            /\ Return("ctor_copy")
    /\ UNCHANGED <<ret, idx>>
    /\ UNCHANGED NotVariant

\* v = value, through variant_choice<T>::operator=
AssignValue ==
  \E t \in TypeSet, x \in Values, thr \in BOOLEAN :
    /\ Idle
    /\ StartOp(Op("assign_value", t, x, thr, FALSE))
    /\ src' = NoSrc
    /\ nops' = nops + 1
    /\ pc' = "assign"
    /\ UNCHANGED <<life, disc, live, ret, idx, ctors, dtors>>
    /\ UNCHANGED NotVariant

\* mutant: assigning from an empty variant leaves the target as it is
AssignVariant_KeepOnEmpty ==
  \E s \in SrcStates(Types) \cup SrcStates(SourceTypes),
     mv \in BOOLEAN, thr \in BOOLEAN :
    /\ Idle
    /\ src' = s
    /\ nops' = nops + 1
    /\ IF ~empty(s.d)
       THEN LET r == visit(s.d, SrcLive(s), s.types) IN
            IF r.res = "returned"
            THEN /\ StartOp(Op("assign_variant", r.calls[1].t, r.calls[1].x,
                               thr, mv))
                 /\ pc' = "assign"
                 /\ UNCHANGED <<life, ret, idx>>
            ELSE /\ op' = Op("assign_variant", NoType, 0, FALSE, mv)
                 /\ events' = <<>>
                 /\ retval' = NoValue
                 /\ before' = Snapshot(disc, live, op.kind, result)
                 /\ Throw("assign_variant", r.res)
                 /\ UNCHANGED <<ret, idx>>
       ELSE /\ op' = Op("assign_variant", NoType, 0, FALSE, mv)
            /\ events' = <<>>
            /\ retval' = NoValue
            /\ before' = Snapshot(disc, live, op.kind, result)
            /\ Return("assign_variant")
            /\ UNCHANGED <<ret, idx>>
    /\ UNCHANGED <<disc, live, ctors, dtors>>
    /\ UNCHANGED NotVariant

\* variant::operator=(const variant&), operator=(variant&&) and the
\* converting operator=(const variant<SourceTypes...>&), operator=(...&&)
AssignVariant ==
  \E s \in SrcStates(Types) \cup SrcStates(SourceTypes),
     mv \in BOOLEAN, thr \in BOOLEAN :
    /\ Idle
    /\ src' = s
    /\ nops' = nops + 1
    /\ IF ~empty(s.d)
       THEN LET r == visit(s.d, SrcLive(s), s.types) IN
            IF r.res = "returned"
            THEN /\ StartOp(Op("assign_variant", r.calls[1].t, r.calls[1].x,
                               thr, mv))
                 /\ pc' = "assign"
                 /\ UNCHANGED <<life, ret, idx>>
            ELSE /\ op' = Op("assign_variant", NoType, 0, FALSE, mv)
                 /\ events' = <<>>
                 /\ retval' = NoValue
                 /\ before' = Snapshot(disc, live, op.kind, result)
                 /\ Throw("assign_variant", r.res)
                 /\ UNCHANGED <<ret, idx>>
       ELSE /\ StartOp(Op("assign_variant", NoType, 0, FALSE, mv))
            /\ pc' = "choice_destroy"
            /\ idx' = 1
            /\ ret' = "return"
            /\ UNCHANGED life
    /\ UNCHANGED <<disc, live, ctors, dtors>>
    /\ UNCHANGED NotVariant

\* v.destroy()
Destroy ==
  /\ Idle
  /\ StartOp(Op("destroy", NoType, 0, FALSE, FALSE))
  /\ src' = NoSrc
  /\ nops' = nops + 1
  /\ pc' = "choice_destroy"
  /\ idx' = 1
  /\ ret' = "return"
  /\ UNCHANGED <<life, disc, live, ctors, dtors>>
  /\ UNCHANGED NotVariant

\* ~variant() { destroy(); }
Destructor ==
  /\ pc = "idle"
  /\ life = "alive"
  /\ StartOp(Op("dtor", NoType, 0, FALSE, FALSE))
  /\ src' = NoSrc
  /\ pc' = "choice_destroy"
  /\ idx' = 1
  /\ ret' = "return"
  /\ UNCHANGED <<life, disc, live, ctors, dtors, nops>>
  /\ UNCHANGED NotVariant

\* v.get<T>(); assert(is<T>()) aborts the program unless NDEBUG is defined,
\* and with NDEBUG the buffer is handed out unchecked
Get ==
  \E t \in TypeSet, ndebug \in BOOLEAN :
    /\ Idle
    /\ LET g == get(disc, live, t, Types) IN
       /\ op' = Op("get", t, 0, FALSE, FALSE)
       /\ before' = Snapshot(disc, live, op.kind, result)
       /\ events' = <<>>
       /\ nops' = nops + 1
       /\ retval' = g.x
       /\ result' = IF g.res = "assert" /\ ndebug THEN "unchecked" ELSE g.res
       /\ pc' = IF g.res = "assert" /\ ~ndebug THEN "aborted" ELSE "idle"
    /\ src' = NoSrc
    /\ UNCHANGED <<life, disc, live, ret, idx, ctors, dtors>>
    /\ UNCHANGED NotVariant

\* v.visit(vis) with vis = Visitor
Visit ==
  /\ Idle
  /\ LET r == visit(disc, live, Types) IN
     /\ op' = Op("visit", NoType, 0, FALSE, FALSE)
     /\ before' = Snapshot(disc, live, op.kind, result)
     /\ events' = [i \in 1..Len(r.calls) |->
                     Ev("call", r.calls[i].t, r.calls[i].x)]
     /\ result' = r.res
     /\ retval' = IF r.res = "returned"
                  THEN Visitor(r.calls[1].t, r.calls[1].x) ELSE NoValue
  /\ nops' = nops + 1
  /\ src' = NoSrc
  /\ UNCHANGED <<life, disc, live, pc, ret, idx, ctors, dtors>>
  /\ UNCHANGED NotVariant

Next ==
  \/ VariantDefault
  \/ VariantFromValue
  \/ VariantCopy
  \/ AssignValue
  \/ AssignVariant
  \/ Destroy
  \/ Destructor
  \/ Get
  \/ Visit
  \/ ChoiceAssign
  \/ ChoiceDestroy
  \/ ResetDiscriminator
  \/ PlacementNew
  \/ SetDiscriminator

Spec == Init /\ [][Next]_vars

TypeOK ==
  /\ life \in {"unborn", "alive", "dead"}
  /\ disc \in 0..(DiscriminatorWidth - 1)
  /\ pc \in {"idle", "assign", "choice_destroy", "reset_disc", "construct",
             "set_disc", "aborted"}

\* ------------------------------------------------------------------ claims
\* an operation of one of the given kinds has finished
Done(kinds) == pc = "idle" /\ result # "running" /\ op.kind \in kinds

AssignKinds == {"assign_value", "assign_variant"}

\* the events of variant::destroy() run on a variant whose discriminator is d
DestroyEvents(d) ==
  (IF d # 0 THEN <<Ev("dtor", Types[d], 0)>> ELSE <<>>)
    \o <<Ev("disc", NoType, 0)>>

HasEvent(e) == \E i \in 1..Len(events) : events[i].e = e

\* C1: between public operations the discriminator is in 0..N; when it is
\* d # 0 the buffer holds exactly one live object, of type Types[d]; when it
\* is 0 the buffer holds no live object.
C1_DiscriminatorNamesLiveObject ==
  (pc \in {"idle", "aborted"} /\ life = "alive") =>
    /\ disc \in 0..NumTypes
    /\ disc = 0 => live = {}
    /\ disc # 0 => \E x \in Values : live = {Obj(Types[disc], x)}

\* a variant that changed its alternative, survived a throwing assignment
\* and holds an alternative again
C1_Witness ==
  /\ pc = "idle" /\ life = "alive"
  /\ disc # 0 /\ dtors >= 1 /\ ctors >= 2
  /\ before.res = "throw"

\* an assignment that had to replace a live alternative threw while
\* constructing the new one
ThrewOnChange ==
  /\ Done(AssignKinds) /\ result = "throw"
  /\ Len(events) >= 1 /\ events[1].e = "dtor"
  /\ events[1].t # op.t

\* C2: when assigning alternative B to a variant holding A throws in B's
\* constructor the variant is empty afterwards (is<A>() and is<B>() false,
\* no live object), A has been destroyed once, and the destructor of a
\* variant left empty by a throw runs no alternative destructor.
C2_ThrowLeavesEmpty ==
  /\ ThrewOnChange =>
       /\ disc = 0 /\ empty(disc) /\ live = {}
       /\ ~is(disc, events[1].t, Types) /\ ~is(disc, op.t, Types)
       /\ events = DestroyEvents(before.d)
       /\ dtors = ctors
  /\ (Done({"dtor"}) /\ before.res = "throw" /\ before.d = 0) =>
       /\ ~HasEvent("dtor")
       /\ dtors = ctors /\ live = {}

\* the variant was constructed holding A, its only operation was the throwing
\* assignment of B, and its destructor has run
C2_Witness ==
  /\ Done({"dtor"}) /\ life = "dead"
  /\ before.kind \in AssignKinds /\ before.res = "throw" /\ before.d = 0
  /\ nops = 1 /\ ctors = 1 /\ dtors = 1

\* C3: in an assignment that changes the alternative the old destructor
\* runs, the discriminator becomes 0, the new constructor runs and only then
\* the discriminator takes the new index: the constructor starts with no
\* live object and discriminator 0, and the discriminator is still 0 while
\* set_discriminator(Discriminator) is pending.
C3_DestroyThenConstruct ==
  /\ pc = "construct" => live = {} /\ disc = 0
  /\ pc = "set_disc" => live = {Obj(op.t, op.x)} /\ disc = 0
  /\ (Done(AssignKinds \cup CtorKinds) /\ result = "ok" /\ HasEvent("ctor")
        /\ op.kind # "ctor_value") =>
       events = DestroyEvents(before.d)
                  \o <<Ev("ctor", op.t, op.x),
                       Ev("disc", NoType, Discriminator(op.t, Types))>>

\* a finished assignment that replaced one live alternative by another
C3_Witness ==
  /\ Done(AssignKinds) /\ result = "ok"
  /\ before.d # 0 /\ disc # 0 /\ disc # before.d

\* an assignment of a value of the alternative the variant already holds
SameAlternative ==
  /\ Done(AssignKinds)
  /\ op.t \in TypeSet
  /\ before.d = Discriminator(op.t, Types)

\* C4: assigning a value of the alternative already held leaves the
\* discriminator unchanged and assigns to the live object in place: no
\* constructor and no destructor runs.
C4_AssignInPlace ==
  SameAlternative =>
    /\ disc = before.d
    /\ ~HasEvent("ctor") /\ ~HasEvent("dtor") /\ ~HasEvent("disc")
    /\ result = "ok" =>
         /\ events = <<Ev("assign", op.t, op.x)>>
         /\ live = {Obj(op.t, op.x)}

\* an in-place assignment that changed the value held
C4_Witness ==
  /\ SameAlternative /\ result = "ok"
  /\ before.objs # live

\* C5: after construction from, or assignment of, a value of alternative X
\* without an exception, is<X>() holds, is<Y>() fails for every other
\* alternative Y, and the discriminator is find_index_of(X) + 1, the 1-based
\* position of X in Types.
C5_HoldsAssignedAlternative ==
  (Done({"ctor_value", "assign_value"}) /\ result = "ok") =>
    /\ is(disc, op.t, Types)
    /\ \A Y \in TypeSet \ {op.t} : ~is(disc, Y, Types)
    /\ disc = find_index_of(Types, op.t, 0) + 1
    /\ disc \in 1..NumTypes /\ Types[disc] = op.t

\* a value of the last alternative assigned to a variant holding the first
C5_Witness ==
  /\ Done({"assign_value"}) /\ result = "ok"
  /\ before.d = 1 /\ op.t = Types[NumTypes] /\ disc = NumTypes

\* C6: a default-constructed variant holds the first alternative of Types
\* with its default value: discriminator 1, is<FirstAlt>(), not empty.
C6_DefaultHoldsFirst ==
  (Done({"ctor_default"}) /\ result = "ok") =>
    /\ life = "alive"
    /\ disc = 1
    /\ is(disc, front(Types), Types)
    /\ ~empty(disc)
    /\ live = {Obj(front(Types), DefaultValue)}

C6_Witness ==
  /\ Done({"ctor_default"}) /\ result = "ok" /\ life = "alive"
  /\ ctors = 1

C8_DestroyIdempotent ==
  /\ Done({"destroy", "dtor"}) =>
       /\ disc = 0 /\ live = {}
       /\ events = DestroyEvents(before.d)
       /\ before.d = 0 => ~HasEvent("dtor")
  /\ dtors <= ctors

\* the destructor has run after an explicit destroy() of a live alternative
C8_Witness ==
  /\ Done({"dtor"}) /\ life = "dead"
  /\ before.kind = "destroy" /\ before.d = 0
  /\ dtors = 1 /\ ctors = 1

\* C9: get<T>() on an empty variant signals empty_variant for every T and
\* leaves the variant unchanged; on a variant holding another alternative
\* it violates the assertion and never signals empty_variant; on a variant
\* holding T it returns the live value.
C9_GetSignals ==
  Done({"get"}) \/ (pc = "aborted" /\ op.kind = "get") =>
    /\ disc = before.d /\ live = before.objs
    /\ before.d = 0 => result = "empty_variant" /\ pc = "idle"
    /\ (before.d # 0 /\ Types[before.d] # op.t) =>
         /\ result \in {"assert", "unchecked"}
         /\ result = "assert" <=> pc = "aborted"
    /\ (before.d # 0 /\ Types[before.d] = op.t) =>
         /\ result = "value"
         /\ live = {Obj(op.t, retval)}

\* get<T>() for the last alternative on a variant emptied by destroy()
C9_Witness ==
  /\ Done({"get"}) /\ result = "empty_variant"
  /\ before.kind = "destroy" /\ op.t = Types[NumTypes]

\* C10: visit(f) on a non-empty variant calls f exactly once, with the value
\* of the alternative the discriminator selects, and returns f's result; on
\* an empty variant it calls f zero times and signals empty_variant.
C10_VisitOnce ==
  Done({"visit"}) =>
    /\ disc = before.d /\ live = before.objs
    /\ disc # 0 =>
         /\ Len(events) = 1
         /\ events[1].e = "call" /\ events[1].t = Types[disc]
         /\ live = {Obj(events[1].t, events[1].x)}
         /\ result = "returned"
         /\ retval = Visitor(events[1].t, events[1].x)
    /\ disc = 0 => events = <<>> /\ result = "empty_variant"

\* visit on a variant holding its last alternative with a non-default value
C10_Witness ==
  /\ Done({"visit"}) /\ result = "returned"
  /\ disc = NumTypes /\ retval = Visitor(Types[NumTypes], MaxVal)

\* what variant_choice<T>::operator= does when a value x of alternative t
\* is assigned to a variant whose discriminator is d
AssignEvents(d, t, x) ==
  IF d = Discriminator(t, Types)
  THEN <<Ev("assign", t, x)>>
  ELSE DestroyEvents(d) \o <<Ev("ctor", t, x),
                             Ev("disc", NoType, Discriminator(t, Types))>>

\* C11: copy- or move-assigning a variant s of the same alternative set
\* does to the target exactly what assigning s's live value does (the target
\* then holds s's alternative and value); s still holds the alternative it
\* held, also after a move; assigning from an empty s leaves the target
\* empty.
C11_AssignFromVariant ==
  (Done({"assign_variant"}) /\ src.types = Types /\ result = "ok") =>
    /\ ~empty(src.d) =>
         /\ op.t = Types[src.d]
         /\ disc = src.d
         /\ live = {Obj(op.t, op.x)}
         /\ events = AssignEvents(before.d, op.t, op.x)
         /\ ~op.mv => src.x = op.x
    /\ empty(src.d) =>
         /\ op.t = NoType
         /\ empty(disc) /\ live = {}
         /\ events = DestroyEvents(before.d)

\* a move assignment that replaced the alternative held by the target
C11_Witness ==
  /\ Done({"assign_variant"}) /\ result = "ok" /\ op.mv
  /\ src.types = Types
  /\ before.d # 0 /\ src.d # 0 /\ src.d # before.d
  /\ disc = src.d

\* ------------------------------------------------------ typelist algorithms
\* the typelists over ElemSet of length at most MaxLen
Lists == SeqsUpTo(ElemSet, MaxLen)

\* the index lists all of whose entries are smaller than the length of List
IndexLists(List) == SeqsUpTo(0..(Len(List) - 1), MaxLen)

\* the arguments List and Element, before an algorithm is applied
TypelistInput(List, Element) ==
  [NoTypelist EXCEPT !.op = "input", !.L = List, !.E = Element]

InitTypelist ==
  /\ OthersIdle("typelist")
  /\ tl \in {TypelistInput(List, Element) : List \in Lists, Element \in ElemSet}

\* push_front_t<L, E>, then pop_front_t and front_t of the result
ApplyPushFront ==
  /\ tl.op = "input"
  /\ tl' = [tl EXCEPT !.op = "push_front",
                      !.list = push_front(tl.L, tl.E),
                      !.list2 = pop_front(push_front(tl.L, tl.E)),
                      !.elem = front(push_front(tl.L, tl.E))]
  /\ UNCHANGED NotTypelist

\* push_back_t<L, E> of a typelist and of an index_sequence
ApplyPushBack ==
  /\ tl.op = "input"
  /\ tl' = [tl EXCEPT !.op = "push_back",
                      !.list = push_back(tl.L, tl.E),
                      !.list2 = push_back_pack(tl.L, tl.E)]
  /\ UNCHANGED NotTypelist

\* reverse_t<L> and reverse_t<reverse_t<L>>
ApplyReverse ==
  /\ tl.op = "input"
  /\ tl' = [tl EXCEPT !.op = "reverse",
                      !.list = reverse(tl.L),
                      !.list2 = reverse(reverse(tl.L))]
  /\ UNCHANGED NotTypelist

\* pop_back_t<L>; pop_front of the empty list does not compile
ApplyPopBack ==
  /\ tl.op = "input"
  /\ ~is_empty(tl.L)
  /\ tl' = [tl EXCEPT !.op = "pop_back", !.list = pop_back(tl.L)]
  /\ UNCHANGED NotTypelist

\* find_index_of<L, E>
ApplyFindIndexOf ==
  /\ tl.op = "input"
  /\ tl' = [tl EXCEPT !.op = "find_index_of",
                      !.idx = find_index_of(tl.L, tl.E, 0)]
  /\ UNCHANGED NotTypelist

\* largest_type_t<L>
ApplyLargestType ==
  /\ tl.op = "input"
  /\ tl' = [tl EXCEPT !.op = "largest_type", !.elem = largest_type(tl.L)]
  /\ UNCHANGED NotTypelist

\* insertion_sort_t<L, Compare>
ApplyInsertionSort ==
  \E c \in Comparators :
    /\ tl.op = "input"
    /\ tl' = [tl EXCEPT !.op = "insertion_sort", !.cmp = c,
                        !.list = insertion_sort(tl.L, c)]
    /\ UNCHANGED NotTypelist

\* select_t<L, std::index_sequence<Indices...>>
ApplySelect ==
  \E Indices \in IndexLists(tl.L) :
    /\ tl.op = "input"
    /\ tl' = [tl EXCEPT !.op = "select", !.I = Indices,
                        !.list = select(tl.L, Indices)]
    /\ UNCHANGED NotTypelist

NextTypelist ==
  \/ ApplyPushFront
  \/ ApplyPushBack
  \/ ApplyReverse
  \/ ApplyPopBack
  \/ ApplyFindIndexOf
  \/ ApplyLargestType
  \/ ApplyInsertionSort
  \/ ApplySelect

SpecTypelist == InitTypelist /\ [][NextTypelist]_tl

\* ------------------------------------------------------------------ tuple
\* A tuple<Head, Tail...> is the sequence of its slots, the head first. A slot
\* is an object of its element type ty holding the value x; origin is the
\* slot of the argument tuple it stems from and gen the number of copy or move
\* constructions between that slot and this object.
Slot(ty, x, origin) == [ty |-> ty, x |-> x, origin |-> origin, gen |-> 0]

\* tuple_elt(U&& rhs) : value_(std::forward<U>(rhs)): one construction of the
\* element from the object rhs refers to
tuple_elt(rhs) == [rhs EXCEPT !.gen = @ + 1]

\* what a tuple algorithm did: the tuple t it returns, log the origin of
\* every element construction in order, selects the number of select_tuple
\* passes and made the number of tuple objects constructed
Run(t, log, selects, made) ==
  [t |-> t, log |-> log, selects |-> selects, made |-> made]

\* algorithm a followed by algorithm b on a's result
Then(a, b) ==
  Run(b.t, a.log \o b.log, a.selects + b.selects, a.made + b.made)

get_head(t) == Head(t)

get_tail(t) == Tail(t)

\* mutant: tuple_get<N>::apply never walks the tail, it returns the head
tuple_get_NoTail(N, t) == get_head(t)

\* tuple_get<N>::apply(t): N times get_tail, then get_head
RECURSIVE tuple_get(_, _)
tuple_get(N, t) ==
  IF N = 0 THEN get_head(t) ELSE tuple_get(N - 1, get_tail(t))

\* get<N>(t): a reference to slot N, nothing is copied
get_slot(t, N) == tuple_get(N, t)

\* tuple(VHead&& head, VTail&&... tail) and the copy constructor of a tuple:
\* HeadElt and TailElt construct every slot from the object handed in
construct(args) ==
  Run([i \in 1..Len(args) |-> tuple_elt(args[i])],
      [i \in 1..Len(args) |-> args[i].origin], 0, 1)

\* make_tuple(args...): tuple<std::decay_t<Types>...>(args...), returned as a
\* prvalue
make_tuple(args) == construct(args)

\* operator== on two tuples of the same number of slots
RECURSIVE tuple_equal(_, _)
tuple_equal(lhs, rhs) ==
  IF lhs = <<>> /\ rhs = <<>>
  THEN TRUE
  ELSE /\ get_head(lhs).x = get_head(rhs).x
       /\ tuple_equal(get_tail(lhs), get_tail(rhs))

\* std::index_sequence_for<Types...>: 0, 1, ..., sizeof...(Types) - 1
index_sequence_for(t) == [i \in 1..Len(t) |-> i - 1]

\* reverse_t of a std::index_sequence: the generic reverse, with is_empty,
\* front, pop_front and push_back specialised for index sequences
RECURSIVE reverse_index_sequence(_)
reverse_index_sequence(Indices) ==
  IF is_empty(Indices)
  THEN Indices
  ELSE push_back_pack(reverse_index_sequence(pop_front(Indices)),
                      front(Indices))

\* select_tuple(t, index_sequence<Indices...>) = make_tuple(get<Indices>(t)...)
select_tuple(t, Indices) ==
  LET r == make_tuple([i \in 1..Len(Indices) |-> get_slot(t, Indices[i])])
  IN [r EXCEPT !.selects = @ + 1]

\* pop_front_tuple(t): t.get_tail() returned by value, a copy of the tail
pop_front_tuple(t) == construct(get_tail(t))

\* push_back_tuple(t, v): recursion over t that rebuilds the tuple slot by
\* slot around the tuple returned for the tail
RECURSIVE push_back_tuple(_, _)
push_back_tuple(t, v) ==
  IF is_empty(t)
  THEN construct(<<v>>)
  ELSE LET r == push_back_tuple(get_tail(t), v)
       IN Then(r, construct(<<get_head(t)>> \o r.t))

\* mutant: the recursive reverse_tuple that the source keeps in a comment,
\* push_back_tuple(reverse_tuple(t.get_tail()), t.get_head())
RECURSIVE reverse_tuple_Recursive(_)
reverse_tuple_Recursive(t) ==
  IF is_empty(t)
  THEN construct(t)
  ELSE LET r == reverse_tuple_Recursive(get_tail(t))
       IN Then(r, push_back_tuple(r.t, get_head(t)))

\* reverse_tuple(t) = select_tuple(t, reverse_t<index_sequence_for<Types...>>)
reverse_tuple(t) ==
  select_tuple(t, reverse_index_sequence(index_sequence_for(t)))

\* pop_back_tuple(t) = reverse_tuple(pop_front_tuple(reverse_tuple(t)))
pop_back_tuple(t) ==
  LET a == reverse_tuple(t)
      b == pop_front_tuple(a.t)
      c == reverse_tuple(b.t)
  IN Then(Then(a, b), c)

\* replicated_index_list<I, N, std::index_sequence<Indices...>>
RECURSIVE replicated_index_list(_, _, _)
replicated_index_list(I, N, Indices) ==
  IF N = 0 THEN Indices
  ELSE replicated_index_list(I, N - 1, push_back_pack(Indices, I))

\* splat_tuple<I, N>(t)
splat_tuple(I, N, t) == select_tuple(t, replicated_index_list(I, N, <<>>))

\* metafun_of_nth_element<List, F>::Apply<integral_constant<M>,
\* integral_constant<N>> = F<nth_element_t<List, M>, nth_element_t<List, N>>
Apply(List, F, M, N) ==
  Compare(F, nth_element(List, M), nth_element(List, N))

\* insert_sorted on a std::index_sequence with Compare = Apply
RECURSIVE insert_sorted_nth(_, _, _, _)
insert_sorted_nth(Indices, Element, List, F) ==
  IF is_empty(Indices) THEN push_front(Indices, Element)
  ELSE LET new_tail ==
             IF Apply(List, F, Element, front(Indices)) THEN Indices
             ELSE insert_sorted_nth(pop_front(Indices), Element, List, F)
           new_head ==
             IF Apply(List, F, Element, front(Indices)) THEN Element
             ELSE front(Indices)
       IN push_front(new_tail, new_head)

\* insertion_sort on a std::index_sequence with Compare = Apply
RECURSIVE insertion_sort_nth(_, _, _)
insertion_sort_nth(Indices, List, F) ==
  IF is_empty(Indices) THEN Indices
  ELSE insert_sorted_nth(insertion_sort_nth(pop_front(Indices), List, F),
                         front(Indices), List, F)

\* the element types tuple<Types...> of t
TypesOf(t) == [i \in 1..Len(t) |-> t[i].ty]

\* sort_tuple<Compare>(t)
sort_tuple(F, t) ==
  select_tuple(t, insertion_sort_nth(index_sequence_for(t), TypesOf(t), F))

\* what is written to a stream: a piece of text or the value of a slot
Text(s) == [text |-> s, value |-> NoValue]

Value(x) == [text |-> "", value |-> x]

\* print_tuple(os, t, is_first): what it appends to os
RECURSIVE print_tuple(_, _)
print_tuple(t, is_first) ==
  IF is_empty(t)
  THEN <<Text(IF is_first THEN "(" ELSE ")")>>
  ELSE <<Text(IF is_first THEN "(" ELSE ", "), Value(get_head(t).x)>>
         \o print_tuple(get_tail(t), FALSE)

\* operator<<(os, t)
Stream(t) == print_tuple(t, TRUE)

\* the tuples of at most MaxLen slots
Tuples ==
  UNION {{[i \in 1..k |-> Slot(L[i], xs[i], i - 1)] :
            L \in [1..k -> ElemSet], xs \in [1..k -> Values]} : k \in 0..MaxLen}

\* the index lists handed to select_tuple
TupleIndexLists(t) == SeqsUpTo(0..(Len(t) - 1), MaxIdx)

\* the tuple t, before an algorithm is applied
TupleInput(t) == [NoTuple EXCEPT !.op = "input", !.t = t]

InitTuple ==
  /\ OthersIdle("tuple")
  /\ tup \in {TupleInput(t) : t \in Tuples}

\* the result of a tuple algorithm
Returned(name, r) ==
  [tup EXCEPT !.op = name, !.out = r.t, !.log = r.log,
              !.selects = r.selects, !.made = r.made]

\* reverse_tuple(t), reverse_tuple of the result, and that compared with t
ApplyReverseTuple ==
  /\ tup.op = "input"
  /\ LET r == reverse_tuple(tup.t)
         rr == reverse_tuple(r.t)
     IN tup' = [Returned("reverse_tuple", r) EXCEPT
                  !.out2 = rr.t, !.eq = tuple_equal(rr.t, tup.t)]
  /\ UNCHANGED NotTuple

\* select_tuple(t, std::index_sequence<Indices...>)
ApplySelectTuple ==
  \E Indices \in TupleIndexLists(tup.t) :
    /\ tup.op = "input"
    /\ tup' = [Returned("select_tuple", select_tuple(tup.t, Indices))
                 EXCEPT !.I = Indices]
    /\ UNCHANGED NotTuple

\* pop_back_tuple(t); pop_back_t<tuple<>> does not compile
ApplyPopBackTuple ==
  /\ tup.op = "input"
  /\ ~is_empty(tup.t)
  /\ tup' = Returned("pop_back_tuple", pop_back_tuple(tup.t))
  /\ UNCHANGED NotTuple

\* push_back_tuple(t, v) with v one of the slots of t
ApplyPushBackTuple ==
  \E I \in 0..(Len(tup.t) - 1) :
    /\ tup.op = "input"
    /\ tup' = [Returned("push_back_tuple",
                        push_back_tuple(tup.t, get_slot(tup.t, I)))
                 EXCEPT !.I = <<I>>]
    /\ UNCHANGED NotTuple

\* splat_tuple<I, N>(t)
ApplySplatTuple ==
  \E I \in 0..(Len(tup.t) - 1), N \in 0..MaxLen :
    /\ tup.op = "input"
    /\ tup' = [Returned("splat_tuple", splat_tuple(I, N, tup.t))
                 EXCEPT !.I = replicated_index_list(I, N, <<>>)]
    /\ UNCHANGED NotTuple

\* sort_tuple<Compare>(t)
ApplySortTuple ==
  \E F \in Comparators :
    /\ tup.op = "input"
    /\ tup' = [Returned("sort_tuple", sort_tuple(F, tup.t)) EXCEPT !.cmp = F]
    /\ UNCHANGED NotTuple

\* os << t
ApplyPrintTuple ==
  /\ tup.op = "input"
  /\ tup' = [tup EXCEPT !.op = "print_tuple", !.os = Stream(tup.t)]
  /\ UNCHANGED NotTuple

NextTuple ==
  \/ ApplyReverseTuple
  \/ ApplySelectTuple
  \/ ApplyPopBackTuple
  \/ ApplyPushBackTuple
  \/ ApplySplatTuple
  \/ ApplySortTuple
  \/ ApplyPrintTuple

SpecTuple == InitTuple /\ [][NextTuple]_tup

\* --------------------------------------------------------------- function
\* the callable types stored in a function: a function pointer, which has
\* operator==, and a closure type, which has not
FunctorTypes == {"function pointer", "closure"}

is_equality_comparable(F) == F = "function pointer"

\* a functor_bridge_impl<F, R, Args...> holding the functor f_ = v
Targets == {[F |-> F, v |-> v] : F \in FunctorTypes, v \in Values}

Functions == {"f", "g"}

\* bridge_ of the function named name
Bridge(name) == IF name = "f" THEN fn.f ELSE fn.g

\* function named name with bridge_ set to b, as the result of operation o
SetBridge(name, b) ==
  IF name = "f" THEN [fn EXCEPT !.f = b] ELSE [fn EXCEPT !.g = b]

\* an operation other than operator== has run
Ran(state, o, args) ==
  [state EXCEPT !.op = o, !.args = args, !.ret = "none", !.equals = FALSE,
                !.null = FALSE]

\* explicit operator bool() const { return bridge_ == nullptr; }
operator_bool(bridge_) == bridge_ = nullptr

\* try_equals<F>::equals(lhs, rhs)
try_equals(F, lhs, rhs) ==
  IF is_equality_comparable(F)
  THEN (IF lhs = rhs THEN "true" ELSE "false")
  ELSE "not_equality_comparable"

\* functor_bridge_impl<F>::equals(rhs) called on the bridge self
equals(self, rhs) ==
  IF rhs # nullptr /\ rhs.F = self.F
  THEN try_equals(self.F, self.v, rhs.v)
  ELSE "false"

\* what lhs.bridge_->equals(rhs.bridge_) can do when lhs.bridge_ is null: the
\* call through the null pointer is undefined
NullCall == {"crash", "true", "false"}

\* template <typename F> function(F&& f) and operator=(F&& rhs)
FunctionFromFunctor ==
  \E name \in Functions, target \in Targets :
    /\ fn' = Ran(SetBridge(name, target), "from_functor", <<name>>)
    /\ UNCHANGED NotFunction

\* operator=(const function& rhs): function tmp(rhs) clones the bridge of
\* rhs when there is one, swap(*this, tmp)
FunctionCopyAssign ==
  \E lhs \in Functions, rhs \in Functions :
    /\ fn' = Ran(SetBridge(lhs, Bridge(rhs)), "copy_assign", <<lhs, rhs>>)
    /\ UNCHANGED NotFunction

\* operator=(function&& rhs): takes the bridge of rhs and leaves rhs empty
FunctionMoveAssign ==
  \E lhs \in Functions, rhs \in Functions :
    /\ lhs # rhs
    /\ fn' = Ran([fn EXCEPT ![lhs] = Bridge(rhs), ![rhs] = nullptr],
                 "move_assign", <<lhs, rhs>>)
    /\ UNCHANGED NotFunction

\* swap(lhs, rhs)
FunctionSwap ==
  /\ fn' = Ran([fn EXCEPT !.f = fn.g, !.g = fn.f], "swap", <<"f", "g">>)
  /\ UNCHANGED NotFunction

\* operator==(lhs, rhs)
FunctionEqual ==
  \E lhs \in Functions, rhs \in Functions :
    LET l == Bridge(lhs)
        r == Bridge(rhs)
    IN /\ IF ~operator_bool(l) \/ ~operator_bool(r)
          THEN fn' = [fn EXCEPT !.op = "equal", !.args = <<lhs, rhs>>,
                        !.ret = IF ~operator_bool(l) /\ ~operator_bool(r)
                                THEN "true" ELSE "false",
                        !.equals = FALSE, !.null = FALSE]
          ELSE IF l = nullptr
               THEN \E outcome \in NullCall :
                      fn' = [fn EXCEPT !.op = "equal", !.args = <<lhs, rhs>>,
                               !.ret = outcome, !.equals = FALSE,
                               !.null = TRUE]
               ELSE fn' = [fn EXCEPT !.op = "equal", !.args = <<lhs, rhs>>,
                             !.ret = equals(l, r), !.equals = TRUE,
                             !.null = FALSE]
       /\ UNCHANGED NotFunction

InitFunction ==
  /\ OthersIdle("function")
  /\ fn = NoFunction

NextFunction ==
  \/ FunctionFromFunctor
  \/ FunctionCopyAssign
  \/ FunctionMoveAssign
  \/ FunctionSwap
  \/ FunctionEqual

SpecFunction == InitFunction /\ [][NextFunction]_fn

\* --------------------------------------------------------------- DAGGraph
\* the keys in ascending order, the order in which a std::map<K, ...> and a
\* std::set<K> are walked
KeySeq == [i \in 1..MaxNodes |-> i - 1]

Ascending(S) == SelectSeq(KeySeq, LAMBDA k : k \in S)

\* the orders in which the nodes can lie in memory: a std::set<DAGNode*> is
\* walked in the order of the addresses of the nodes
Addresses == {addr \in [1..MaxNodes -> Keys] :
                \A i, j \in 1..MaxNodes : addr[i] = addr[j] => i = j}

ByAddress(S, addr) == SelectSeq(addr, LAMBDA k : k \in S)

\* the loop of IsCyclic: q the queue of nodes, visited the nodes seen
RECURSIVE IsCyclicLoop(_, _, _, _)
IsCyclicLoop(bucket, q, visited, to) ==
  IF q = <<>> THEN FALSE
  ELSE LET node == Head(q) IN
       IF node \in visited THEN IsCyclicLoop(bucket, Tail(q), visited, to)
       ELSE IF node = to THEN TRUE
       ELSE IsCyclicLoop(bucket, Tail(q) \o Ascending(bucket[node].in),
                         visited \cup {node}, to)

\* mutant: only the direct predecessors of from are compared with to
IsCyclic_ParentsOnly(bucket, from, to) == to \in bucket[from].in

\* IsCyclic(from, to): to is among the ancestors of from
IsCyclic(bucket, from, to) ==
  IsCyclicLoop(bucket, Ascending(bucket[from].in), {}, to)

\* DFS(k, visited, connected_components), st = [visited, comp]
RECURSIVE DFS(_, _, _)
RECURSIVE DFSEach(_, _, _)
DFS(bucket, k, st) ==
  IF k \in st.visited THEN st
  ELSE LET s1 == [visited |-> st.visited \cup {k}, comp |-> st.comp \cup {k}]
           s2 == DFSEach(bucket, Ascending(bucket[k].in), s1)
       IN DFSEach(bucket, Ascending(bucket[k].out), s2)

\* for (DAGNode* v : nodes) DFS(v->k, visited, connected_components)
DFSEach(bucket, ks, st) ==
  IF ks = <<>> THEN st
  ELSE DFSEach(bucket, Tail(ks), DFS(bucket, Head(ks), st))

\* the loop of ConnectedComponents over bucket_, before the sort
RECURSIVE ComponentsLoop(_, _, _, _)
ComponentsLoop(bucket, ks, visited, res) ==
  IF ks = <<>> THEN res
  ELSE LET st == DFS(bucket, Head(ks), [visited |-> visited, comp |-> {}])
       IN ComponentsLoop(bucket, Tail(ks), st.visited,
                         IF st.comp # {} THEN Append(res, st.comp) ELSE res)

\* the arrangements of the sequence res
Arrangements(res) ==
  {[i \in 1..Len(res) |-> res[p[i]]] :
     p \in {q \in [1..Len(res) -> 1..Len(res)] :
              \A i, j \in 1..Len(res) : q[i] = q[j] => i = j}}

\* ConnectedComponents(): the results std::sort by size can leave; the order
\* of components of equal size is unspecified
ConnectedComponents(d) ==
  {res \in Arrangements(ComponentsLoop(d.bucket, Ascending(d.keys), {}, <<>>)) :
     \A i, j \in 1..Len(res) :
        i < j => ~(Cardinality(res[j]) < Cardinality(res[i]))}

\* adjacency_list[key]: the successors of key for start_from_head, else its
\* predecessors, in the order of their addresses
Adjacency(bucket, key, start_from_head, addr) ==
  ByAddress(IF start_from_head THEN bucket[key].out ELSE bucket[key].in, addr)

\* the while loop of TopologicalSequence
RECURSIVE TopologicalLoop(_, _, _, _, _, _)
TopologicalLoop(bucket, start_from_head, addr, q, in_degree, res) ==
  IF q = <<>> THEN res
  ELSE LET key == Head(q)
           adj == Adjacency(bucket, key, start_from_head, addr)
           deg == [k \in Keys |->
                     IF \E i \in 1..Len(adj) : adj[i] = k
                     THEN in_degree[k] - 1 ELSE in_degree[k]]
       IN TopologicalLoop(bucket, start_from_head, addr,
                          Tail(q) \o SelectSeq(adj, LAMBDA k : deg[k] = 0),
                          deg, Append(res, key))

\* mutant: the keys of the component in ascending order, whatever the edges
TopologicalSequence_KeyOrder(bucket, connected_components, start_from_head, addr) ==
  Ascending(connected_components)

\* TopologicalSequence(connected_components, start_from_head)
TopologicalSequence(bucket, connected_components, start_from_head, addr) ==
  LET in_degree ==
        [k \in Keys |->
           Cardinality({u \in connected_components :
              \E i \in 1..Len(Adjacency(bucket, u, start_from_head, addr)) :
                 Adjacency(bucket, u, start_from_head, addr)[i] = k})]
      q == Ascending({k \in connected_components : in_degree[k] = 0})
  IN TopologicalLoop(bucket, start_from_head, addr, q, in_degree, <<>>)

\* RefreshWalkSequences() for one result of ConnectedComponents and one
\* layout of the nodes in memory
RefreshWalkSequences(d, components, addr) ==
  LET from_head == [i \in 1..Len(components) |->
                      TopologicalSequence(d.bucket, components[i], TRUE, addr)]
      from_tail == [i \in 1..Len(components) |->
                      TopologicalSequence(d.bucket, components[i], FALSE, addr)]
  IN [d EXCEPT !.seq_head = from_head, !.seq_tail = from_tail,
               !.seq_next = from_head]

\* if (sequences_start_from_head_.empty()) RefreshWalkSequences();
Refreshed(d) ==
  IF d.seq_head = <<>>
  THEN {RefreshWalkSequences(d, components, addr) :
          components \in ConnectedComponents(d), addr \in Addresses}
  ELSE {d}

\* the keys of the sequences seqs, one sequence after the other
RECURSIVE Flatten(_)
Flatten(seqs) ==
  IF seqs = <<>> THEN <<>> ELSE Head(seqs) \o Flatten(Tail(seqs))

\* a call of name with args has returned
Called(d, name, args) ==
  [d EXCEPT !.op = name, !.args = args, !.ok = FALSE, !.res = {},
            !.visited = <<>>]

\* an assert of the call of name has failed: the process is aborted and
\* nothing of the graph is left
Aborted(d, name, args) == [NoDag EXCEPT !.op = name, !.aborted = TRUE]

\* V& operator[](const K& key)
DagInsert ==
  \E key \in Keys :
    /\ ~dag.aborted
    /\ dag' =
         IF key \in dag.keys THEN Called(dag, "operator[]", <<key>>)
         ELSE IF ~dag.allow THEN Aborted(dag, "operator[]", <<key>>)
         ELSE [Called(dag, "operator[]", <<key>>) EXCEPT
                 !.keys = @ \cup {key},
                 !.bucket[key] = NoEdges,
                 !.heads = @ \cup {key},
                 !.tails = @ \cup {key},
                 !.seq_head = <<>>,
                 !.seq_tail = <<>>]
    /\ UNCHANGED NotDag

\* mutant: tails_.erase(from) is forgotten
DagAddEdge_KeepsTail ==
  \E from \in Keys, to \in Keys :
    /\ ~dag.aborted
    /\ dag' =
         IF ~dag.allow THEN Aborted(dag, "AddEdge", <<from, to>>)
         ELSE IF \/ from = to
                 \/ from \notin dag.keys
                 \/ to \notin dag.keys
                 \/ IsCyclic(dag.bucket, from, to)
         THEN Called(dag, "AddEdge", <<from, to>>)
         ELSE [Called(dag, "AddEdge", <<from, to>>) EXCEPT
                 !.bucket[from].out = @ \cup {to},
                 !.bucket[to].in = @ \cup {from},
                 !.heads = @ \ {to},
                 !.seq_head = <<>>,
                 !.seq_tail = <<>>,
                 !.ok = TRUE]
    /\ UNCHANGED NotDag

\* bool AddEdge(const K& from, const K& to)
DagAddEdge ==
  \E from \in Keys, to \in Keys :
    /\ ~dag.aborted
    /\ dag' =
         IF ~dag.allow THEN Aborted(dag, "AddEdge", <<from, to>>)
         ELSE IF \/ from = to
                 \/ from \notin dag.keys
                 \/ to \notin dag.keys
                 \/ IsCyclic(dag.bucket, from, to)
         THEN Called(dag, "AddEdge", <<from, to>>)
         ELSE [Called(dag, "AddEdge", <<from, to>>) EXCEPT
                 !.bucket[from].out = @ \cup {to},
                 !.bucket[to].in = @ \cup {from},
                 !.heads = @ \ {to},
                 !.tails = @ \ {from},
                 !.seq_head = <<>>,
                 !.seq_tail = <<>>,
                 !.ok = TRUE]
    /\ UNCHANGED NotDag

\* void Clear(): the two sequences kept for NextKeys(key) and the current
\* heads are left as they were; the walk in progress is over
DagClear ==
  /\ ~dag.aborted
  /\ dag' = [Called(dag, "Clear", <<>>) EXCEPT
               !.allow = TRUE,
               !.keys = {},
               !.bucket = [k \in Keys |-> NoEdges],
               !.heads = {},
               !.tails = {},
               !.seq_head = <<>>,
               !.seq_tail = <<>>,
               !.calls = <<>>]
  /\ UNCHANGED NotDag

\* void Walk(f, start_from_head): visited lists the keys f is called with
DagWalk ==
  \E start_from_head \in BOOLEAN :
    \E d \in Refreshed(dag) :
      /\ ~dag.aborted
      /\ dag' = [Called(d, "Walk", <<start_from_head>>) EXCEPT
                   !.visited = Flatten(IF start_from_head THEN d.seq_head
                                       ELSE d.seq_tail)]
      /\ UNCHANGED NotDag

\* void WalkHeads(f)
DagWalkHeads ==
  \E d \in Refreshed(dag) :
    /\ ~dag.aborted
    /\ dag' = [Called(d, "WalkHeads", <<>>) EXCEPT
                 !.visited = SelectSeq(Flatten(d.seq_head),
                                       LAMBDA key : key \in d.heads)]
    /\ UNCHANGED NotDag

\* void WalkTails(f)
DagWalkTails ==
  \E d \in Refreshed(dag) :
    /\ ~dag.aborted
    /\ dag' = [Called(d, "WalkTails", <<>>) EXCEPT
                 !.visited = SelectSeq(Flatten(d.seq_tail),
                                       LAMBDA key : key \in d.tails)]
    /\ UNCHANGED NotDag

\* std::unordered_set<K> NextKeys()
DagNextKeys ==
  \E d \in Refreshed(dag) :
    /\ ~dag.aborted
    /\ dag' =
         IF ~dag.allow THEN Aborted(dag, "NextKeys", <<>>)
         ELSE [Called(d, "NextKeys", <<>>) EXCEPT
                 !.allow = FALSE,
                 !.cur = d.heads,
                 !.res = d.heads,
                 !.calls = <<>>]
    /\ UNCHANGED NotDag

\* the key is in the sequence seq
InSeq(seq, key) == \E i \in 1..Len(seq) : seq[i] = key

\* seq.erase(std::find(begin(seq), end(seq), key))
Erase(seq, key) == SelectSeq(seq, LAMBDA k : k # key)

\* mutant: every successor of key is returned, whatever its predecessors
NextKeysOf_AllSuccessors(d, key) ==
  IF \E i \in 1..Len(d.seq_next) : InSeq(d.seq_next[i], key)
  THEN LET i == CHOOSE i \in 1..Len(d.seq_next) : InSeq(d.seq_next[i], key)
           seq == Erase(d.seq_next[i], key)
           res == d.bucket[key].out
       IN [d EXCEPT !.seq_next[i] = seq,
                    !.cur = (@ \ {key}) \cup res,
                    !.res = res]
  ELSE [d EXCEPT !.cur = @ \ {key}, !.res = {}]

\* the body of NextKeys(key) after its asserts: key is erased from the
\* sequence it is in, and the successors of key none of whose predecessors
\* is left in that sequence are returned
NextKeysOf(d, key) ==
  IF \E i \in 1..Len(d.seq_next) : InSeq(d.seq_next[i], key)
  THEN LET i == CHOOSE i \in 1..Len(d.seq_next) :
                   /\ InSeq(d.seq_next[i], key)
                   /\ \A j \in 1..(i - 1) : ~InSeq(d.seq_next[j], key)
           seq == Erase(d.seq_next[i], key)
           res == {v \in d.bucket[key].out :
                     \A in_node \in d.bucket[v].in : ~InSeq(seq, in_node)}
       IN [d EXCEPT !.seq_next[i] = seq,
                    !.cur = (@ \ {key}) \cup res,
                    !.res = res]
  ELSE [d EXCEPT !.cur = @ \ {key}, !.res = {}]

\* std::unordered_set<K> NextKeys(const K& key)
DagNextKeysOf ==
  \E key \in Keys :
    /\ ~dag.aborted
    /\ dag' =
         IF dag.allow \/ key \notin dag.cur
         THEN Aborted(dag, "NextKeys(key)", <<key>>)
         ELSE LET d == NextKeysOf(Called(dag, "NextKeys(key)", <<key>>), key)
              IN [d EXCEPT !.calls = Append(@, [key |-> key, res |-> d.res])]
    /\ UNCHANGED NotDag

InitDag ==
  /\ OthersIdle("dag")
  /\ dag = NoDag

NextDag ==
  \/ DagInsert
  \/ DagAddEdge
  \/ DagClear
  \/ DagWalk
  \/ DagWalkHeads
  \/ DagWalkTails
  \/ DagNextKeys
  \/ DagNextKeysOf

SpecDag == InitDag /\ [][NextDag]_dag

\* ------------------------------------------------- claims about typelists
\* how often e occurs in List
Count(List, e) == Cardinality({i \in 1..Len(List) : List[i] = e})

IsPermutation(A, B) ==
  /\ Len(A) = Len(B)
  /\ \A e \in ElemSet : Count(A, e) = Count(B, e)

\* every adjacent pair (earlier, later) of List satisfies !Cmp(later, earlier)
AdjacentOrdered(List, c) ==
  \A i \in 1..(Len(List) - 1) : ~Compare(c, List[i + 1], List[i])

Irreflexive(c) == \A a \in ElemSet : ~Compare(c, a, a)

\* c orders ElemSet totally: of two different elements exactly one precedes
\* the other, and precedence is transitive (both < and <= qualify)
TotalOrder(c) ==
  /\ \A a, b \in ElemSet : a # b => (Compare(c, a, b) <=> ~Compare(c, b, a))
  /\ \A a, b, d \in ElemSet :
       (Compare(c, a, b) /\ Compare(c, b, d)) => Compare(c, a, d)

StrictTotalOrder(c) == TotalOrder(c) /\ Irreflexive(c)

\* C12 as stated: for every total-order predicate Cmp, insertion_sort(L, Cmp)
\* is a permutation of L in which every adjacent pair (earlier, later)
\* satisfies !Cmp(later, earlier).
C12_Original ==
  (tl.op = "insertion_sort" /\ TotalOrder(tl.cmp)) =>
    /\ IsPermutation(tl.list, tl.L)
    /\ AdjacentOrdered(tl.list, tl.cmp)

\* C12 amended: for every total-order predicate insertion_sort(L, Cmp) is a
\* permutation of L; every adjacent pair satisfies !Cmp(later, earlier) when
\* Cmp is a strict total order (Cmp(a, a) false); when Cmp is reflexive the
\* adjacent pairs of two different elements satisfy it.
C12_SortedPermutation ==
  (tl.op = "insertion_sort" /\ TotalOrder(tl.cmp)) =>
    /\ IsPermutation(tl.list, tl.L)
    /\ Irreflexive(tl.cmp) => AdjacentOrdered(tl.list, tl.cmp)
    /\ \A i \in 1..(Len(tl.list) - 1) :
         tl.list[i] # tl.list[i + 1] =>
           ~Compare(tl.cmp, tl.list[i + 1], tl.list[i])

\* a list with a repeated element that a strict total order had to reorder
C12_Witness ==
  /\ tl.op = "insertion_sort" /\ StrictTotalOrder(tl.cmp)
  /\ tl.list # tl.L
  /\ \E e \in ElemSet : Count(tl.L, e) >= 2

\* C13: pop_front(push_front(L, E)) = L and front(push_front(L, E)) = E for
\* every typelist L, the empty one included.
C13_PushFrontLaws ==
  tl.op = "push_front" =>
    /\ tl.list2 = tl.L
    /\ tl.elem = tl.E
    /\ Len(tl.list) = Len(tl.L) + 1

C13_Witness ==
  /\ tl.op = "push_front"
  /\ Len(tl.L) = MaxLen /\ tl.E # tl.L[1] /\ tl.E # tl.L[MaxLen]

\* C14: reverse(reverse(L)) = L, where reverse(L) holds the elements of L in
\* the opposite order.
C14_ReverseInvolution ==
  tl.op = "reverse" =>
    /\ tl.list2 = tl.L
    /\ Len(tl.list) = Len(tl.L)
    /\ \A i \in 1..Len(tl.L) : tl.list[i] = tl.L[Len(tl.L) + 1 - i]

C14_Witness ==
  /\ tl.op = "reverse"
  /\ Len(tl.L) = MaxLen /\ tl.list # tl.L

\* C15: the generic recursive push_back and the pack-expansion push_back
\* return the same list: the elements of L in their order followed by E.
C15_PushBackAgree ==
  tl.op = "push_back" =>
    /\ tl.list = tl.list2
    /\ Len(tl.list) = Len(tl.L) + 1
    /\ \A i \in 1..Len(tl.L) : tl.list[i] = tl.L[i]
    /\ tl.list[Len(tl.L) + 1] = tl.E

C15_Witness ==
  /\ tl.op = "push_back"
  /\ Len(tl.L) = MaxLen /\ tl.E # tl.L[1] /\ tl.L[1] # tl.L[MaxLen]

\* C16: pop_back(L) of a non-empty L is L without its last element, the
\* other elements in their order.
C16_PopBack ==
  (tl.op = "pop_back" /\ ~is_empty(tl.L)) =>
    /\ Len(tl.list) = Len(tl.L) - 1
    /\ \A i \in 1..(Len(tl.L) - 1) : tl.list[i] = tl.L[i]

C16_Witness ==
  /\ tl.op = "pop_back"
  /\ Len(tl.L) = MaxLen /\ tl.L[1] # tl.L[2]

\* C17: find_index_of(L, T) is the 0-based position of the first occurrence
\* of T in L, and has no result when T does not occur in L.
C17_FindIndexOf ==
  tl.op = "find_index_of" =>
    IF \E i \in 1..Len(tl.L) : tl.L[i] = tl.E
    THEN /\ tl.idx \in 0..(Len(tl.L) - 1)
         /\ tl.L[tl.idx + 1] = tl.E
         /\ \A j \in 1..tl.idx : tl.L[j] # tl.E
    ELSE tl.idx = NoIndex

\* T occurs twice and not at the front
C17_Witness ==
  /\ tl.op = "find_index_of"
  /\ Count(tl.L, tl.E) >= 2 /\ tl.idx >= 1

\* C18: largest_type(L) of a non-empty L is the first element of L, from
\* the left, whose size is the maximum over L.
C18_LargestType ==
  (tl.op = "largest_type" /\ ~is_empty(tl.L)) =>
    \E i \in 1..Len(tl.L) :
      /\ tl.L[i] = tl.elem
      /\ \A j \in 1..Len(tl.L) : SizeOf[tl.L[j]] <= SizeOf[tl.elem]
      /\ \A j \in 1..(i - 1) : SizeOf[tl.L[j]] < SizeOf[tl.elem]

\* two different types of the maximal size, the chosen one first
C18_Witness ==
  /\ tl.op = "largest_type"
  /\ \E j \in 1..Len(tl.L) :
       tl.L[j] # tl.elem /\ SizeOf[tl.L[j]] = SizeOf[tl.elem]

\* C19: select(L, I) has the length of I and its i-th element is
\* nth_element(L, I[i]), the element of L at position I[i].
C19_Select ==
  tl.op = "select" =>
    /\ Len(tl.list) = Len(tl.I)
    /\ \A i \in 1..Len(tl.I) :
         /\ tl.list[i] = tl.L[tl.I[i] + 1]
         /\ tl.list[i] = nth_element(tl.L, tl.I[i])

\* an index list with a repeated entry that is not a prefix of the identity
C19_Witness ==
  /\ tl.op = "select"
  /\ Len(tl.I) = MaxLen /\ tl.I[1] = tl.I[2] /\ tl.I[1] # 0
  /\ tl.list[1] # tl.L[1]

\* ---------------------------------------------------- claims about tuples
\* C20: reverse_tuple(T) of a tuple T of N slots holds at slot i (from 0) the
\* value of slot N-1-i of T, and reverse_tuple(reverse_tuple(T)) equals T
\* slot by slot.
C20_ReverseTuple ==
  tup.op = "reverse_tuple" =>
    LET N == Len(tup.t) IN
    /\ Len(tup.out) = N
    /\ \A i \in 0..(N - 1) :
         /\ tup.out[i + 1].x = tup.t[(N - 1 - i) + 1].x
         /\ tup.out[i + 1].ty = tup.t[(N - 1 - i) + 1].ty
    /\ tup.eq
    /\ Len(tup.out2) = N
    /\ \A i \in 1..N :
         tup.out2[i].x = tup.t[i].x /\ tup.out2[i].ty = tup.t[i].ty

C20_Witness ==
  /\ tup.op = "reverse_tuple"
  /\ Len(tup.t) = MaxLen /\ tup.t[1].x # tup.t[MaxLen].x
  /\ tup.t[1].ty # tup.t[MaxLen].ty

\* --------------------------------------- further claims about typelists
\* the elements of List in the opposite order
Reversed(List) == [i \in 1..Len(List) |-> List[Len(List) + 1 - i]]

\* c treats T and U as equivalent
Equivalent(c, T, U) == ~Compare(c, T, U) /\ ~Compare(c, U, T)

\* the elements of List that c treats as equivalent to T, in their order
EquivalentTo(List, c, T) == SelectSeq(List, LAMBDA U : Equivalent(c, T, U))

\* C27: insertion_sort places the elements that the comparator treats as
\* equivalent (neither Cmp(a, b) nor Cmp(b, a)) in the reverse of their order
\* in the input list.
C27_EquivalentsReversed ==
  tl.op = "insertion_sort" =>
    \A T \in ElemSet :
      EquivalentTo(tl.list, tl.cmp, T) =
        Reversed(EquivalentTo(tl.L, tl.cmp, T))

\* two different types of the same size, sorted by size
C27_Witness ==
  /\ tl.op = "insertion_sort" /\ tl.cmp = "smaller"
  /\ Len(tl.L) = MaxLen
  /\ \E T \in ElemSet :
       LET eq == EquivalentTo(tl.L, tl.cmp, T)
       IN Len(eq) >= 2 /\ eq # Reversed(eq)

\* ----------------------------------------- further claims about the variant
\* C28: when the assignment in place to the held alternative throws, the
\* discriminator is unchanged and the variant still holds one live object of
\* that alternative; the destructor of the variant then destroys it exactly
\* once.
C28_InPlaceThrowKeepsAlternative ==
  /\ (Done(AssignKinds) /\ result = "throw"
        /\ before.d = Discriminator(op.t, Types)) =>
       /\ disc = before.d
       /\ Cardinality(live) = 1
       /\ \A o \in live : o.t = op.t
       /\ events = <<>>
  /\ (Done({"dtor"}) /\ before.kind \in AssignKinds /\ before.res = "throw"
        /\ before.d # 0) =>
       /\ events = DestroyEvents(before.d)
       /\ live = {}
       /\ empty(disc)
       /\ dtors = ctors

\* the destructor has run after an assignment in place has thrown
C28_Witness ==
  /\ Done({"dtor"}) /\ before.kind \in AssignKinds /\ before.res = "throw"
  /\ before.d # 0
  /\ events = DestroyEvents(before.d)

\* ------------------------------------------- further claims about tuples
\* how often slot origin of the argument tuple was copied or moved from
NumCopies(log, origin) == Cardinality({i \in 1..Len(log) : log[i] = origin})

TupleAlgorithms ==
  {"reverse_tuple", "pop_back_tuple", "sort_tuple", "splat_tuple",
   "select_tuple"}

\* C22: each of reverse_tuple, pop_back_tuple, sort_tuple, splat_tuple and
\* select_tuple builds its result with exactly one select pass over the
\* source tuple and constructs no intermediate tuple.
C22_SingleSelectPass ==
  tup.op \in TupleAlgorithms =>
    /\ tup.selects = 1
    /\ tup.made = 1
    /\ \A i \in 1..Len(tup.out) : tup.out[i].gen = 1

\* the text "(v1, v2, ..., vN)" for the slot values of t
Parenthesized(t) ==
  [i \in 1..(IF Len(t) = 0 THEN 2 ELSE 2 * Len(t) + 1) |->
     IF i = 1 THEN Text("(")
     ELSE IF Len(t) = 0 \/ i = 2 * Len(t) + 1 THEN Text(")")
     ELSE IF i % 2 = 0 THEN Value(t[i \div 2].x)
     ELSE Text(", ")]

\* C23: writing a tuple of any arity N >= 0 to a stream produces an opening
\* parenthesis, the slot values in declaration order separated by a comma and
\* a space, and a closing parenthesis.
C23_PrintTuple ==
  tup.op = "print_tuple" => tup.os = Parenthesized(tup.t)

\* -------------------------------------------------- claims about function
\* the function named name holds a target
HoldsTarget(name) == Bridge(name) # nullptr

\* C30: operator== on two functions calls equals() through a bridge pointer
\* only when both operands hold a target; two empty functions compare equal,
\* an empty and a non-empty function compare unequal, and no null bridge
\* pointer is dereferenced.
C30_EqualNeverDereferencesNull ==
  fn.op = "equal" =>
    LET lhs == fn.args[1]
        rhs == fn.args[2]
    IN /\ fn.equals => (HoldsTarget(lhs) /\ HoldsTarget(rhs))
       /\ (~HoldsTarget(lhs) /\ ~HoldsTarget(rhs)) => fn.ret = "true"
       /\ (HoldsTarget(lhs) # HoldsTarget(rhs)) => fn.ret = "false"
       /\ ~fn.null

\* -------------------------------------------------- claims about DAGGraph
RECURSIVE ReachedWithin(_, _, _)
\* the keys reached from key a along at most n edges, one at least
ReachedWithin(bucket, a, n) ==
  IF n = 0 THEN {}
  ELSE LET S == ReachedWithin(bucket, a, n - 1)
       IN bucket[a].out \cup S \cup UNION {bucket[x].out : x \in S}

\* the keys reached from key a along one edge or more
Descendants(bucket, a) == ReachedWithin(bucket, a, MaxNodes)

\* no key of the graph reaches itself
Acyclic == \A k \in dag.keys : k \notin Descendants(dag.bucket, k)

\* the call AddEdge(from, to) is one the graph has to refuse
Refused(d, from, to) ==
  \/ from = to
  \/ from \notin d.keys
  \/ to \notin d.keys
  \/ from \in Descendants(d.bucket, to)

\* a step that is a call of AddEdge refuses or accepts the edge as it has to
AddEdgeStep ==
  (dag'.op = "AddEdge" /\ ~dag'.aborted) =>
    LET from == dag'.args[1]
        to == dag'.args[2]
    IN /\ dag'.keys = dag.keys
       /\ IF Refused(dag, from, to)
          THEN /\ ~dag'.ok
               /\ dag'.bucket = dag.bucket
               /\ dag'.heads = dag.heads
               /\ dag'.tails = dag.tails
          ELSE /\ dag'.ok
               /\ dag'.bucket =
                    [dag.bucket EXCEPT ![from].out = @ \cup {to},
                                       ![to].in = @ \cup {from}]

\* C24: AddEdge(from, to) returns false and leaves the nodes, edges, heads
\* and tails of the graph unchanged when from = to, when either key is not in
\* the graph, or when to is already an ancestor of from; otherwise it adds
\* the edge and returns true. Hence the graph never has a cycle.
C24_AddEdgeKeepsAcyclic == [][AddEdgeStep]_dag /\ []Acyclic

\* an edge has been refused only because it would have closed a cycle through
\* a third key
C24_Witness ==
  /\ dag.op = "AddEdge" /\ ~dag.aborted /\ ~dag.ok
  /\ LET from == dag.args[1]
         to == dag.args[2]
     IN /\ from # to /\ from \in dag.keys /\ to \in dag.keys
        /\ from \in Descendants(dag.bucket, to)
        /\ from \notin dag.bucket[to].out

\* the keys the last walk has called f with are exactly the keys of S, each
\* of them once
VisitedOnce(S) ==
  /\ \A i \in 1..Len(dag.visited) : dag.visited[i] \in S
  /\ \A k \in S : Count(dag.visited, k) = 1

\* C29: after any sequence of operator[] insertions and AddEdge calls, heads_
\* is exactly the set of keys with no incoming edge and tails_ the set of keys
\* with no outgoing edge, and WalkHeads and WalkTails visit exactly those
\* nodes, each once.
C29_HeadsAndTails ==
  ~dag.aborted =>
    /\ dag.heads = {k \in dag.keys : dag.bucket[k].in = {}}
    /\ dag.tails = {k \in dag.keys : dag.bucket[k].out = {}}
    /\ dag.op = "WalkHeads" => VisitedOnce(dag.heads)
    /\ dag.op = "WalkTails" => VisitedOnce(dag.tails)

\* WalkTails has visited the two tails of a graph that has an edge
C29_Witness ==
  /\ dag.op = "WalkTails" /\ ~dag.aborted
  /\ Len(dag.visited) = 2
  /\ dag.tails # dag.keys

RECURSIVE LinkedWithin(_, _, _)
\* the keys linked to key a by at most n edges, whatever their direction
LinkedWithin(bucket, a, n) ==
  IF n = 0 THEN {a}
  ELSE LET S == LinkedWithin(bucket, a, n - 1)
       IN S \cup UNION {bucket[x].in \cup bucket[x].out : x \in S}

\* the connected component of key a
Component(a) == LinkedWithin(dag.bucket, a, MaxNodes)

\* the place of key k in the last walk
Place(k) == CHOOSE i \in 1..Len(dag.visited) : dag.visited[i] = k

\* C25: Walk(f, start_from_head) calls f exactly once for every node of the
\* graph; with start_from_head = true a node is visited only after all its
\* predecessors, with start_from_head = false only after all its successors;
\* the nodes of one connected component are visited contiguously and the
\* components are visited in order of non-decreasing size.
C25_Walk ==
  (dag.op = "Walk" /\ ~dag.aborted) =>
    LET start_from_head == dag.args[1]
        v == dag.visited
    IN /\ VisitedOnce(dag.keys)
       /\ \A a \in dag.keys : \A b \in dag.bucket[a].out :
            IF start_from_head THEN Place(a) < Place(b)
            ELSE Place(b) < Place(a)
       /\ \A i \in 1..Len(v) : \A j \in i..Len(v) : \A l \in j..Len(v) :
            Component(v[i]) = Component(v[l]) =>
              Component(v[j]) = Component(v[i])
       /\ \A i \in 1..Len(v) : \A j \in i..Len(v) :
            Cardinality(Component(v[i])) <= Cardinality(Component(v[j]))

\* a walk from the tails of a graph that has components of two sizes, the
\* larger one holding the smaller keys
C25_Witness ==
  /\ dag.op = "Walk" /\ ~dag.aborted /\ dag.args[1] = FALSE
  /\ Len(dag.visited) = MaxNodes
  /\ \E a \in dag.keys : \E b \in dag.keys :
       /\ a < b
       /\ Cardinality(Component(a)) > Cardinality(Component(b))
       /\ dag.bucket[a].out # {}

\* the keys passed to NextKeys(key) by the first n calls of the walk in
\* progress
Passed(n) == {dag.calls[i].key : i \in 1..n}

\* the calls of NextKeys(key) that have returned key v
ReturnedBy(v) == {i \in 1..Len(dag.calls) : v \in dag.calls[i].res}

\* C26: after NextKeys() has returned the head keys, if every key that has
\* been returned is passed once to NextKeys(key), each node that is no head
\* is returned by exactly one call, the one for the last of its predecessors
\* to be passed, never before all its predecessors have been passed, and
\* every node of the graph has been returned in the end.
C26_NextKeys ==
  (~dag.allow /\ ~dag.aborted) =>
    LET n == Len(dag.calls) IN
    /\ dag.op = "NextKeys" => dag.res = dag.heads
    /\ \A i, j \in 1..n : dag.calls[i].key = dag.calls[j].key => i = j
    /\ dag.cur = (dag.heads \cup UNION {dag.calls[i].res : i \in 1..n})
                   \ Passed(n)
    /\ \A v \in dag.heads : ReturnedBy(v) = {}
    /\ \A v \in dag.keys \ dag.heads :
         /\ Cardinality(ReturnedBy(v)) <= 1
         /\ \A i \in ReturnedBy(v) :
              /\ dag.calls[i].key \in dag.bucket[v].in
              /\ dag.bucket[v].in \subseteq Passed(i)
         /\ dag.bucket[v].in \subseteq Passed(n) => ReturnedBy(v) # {}
    /\ dag.cur = {} => Passed(n) = dag.keys

\* every key of a graph has been passed, one of them a node with two
\* predecessors
C26_Witness ==
  /\ ~dag.allow /\ ~dag.aborted /\ dag.op = "NextKeys(key)"
  /\ dag.cur = {}
  /\ Len(dag.calls) = MaxNodes
  /\ \E v \in dag.keys : Cardinality(dag.bucket[v].in) = 2

====
